---- MODULE Spec2Model ----
(***************************************************************************)
(* State-machine model of the contribution-analysis scripts under          *)
(* src/analyzers.  Every script is straight-line code around HTTP          *)
(* requests; one action models one block of a script, the script counter   *)
(* pc says where the script is.                                            *)
(*                                                                         *)
(* Conventions                                                             *)
(*   - a Python value that may be None is a sequence of length 0 or 1:     *)
(*     None is << >>, the value v is << v >>;                              *)
(*   - a datetime is [ord, sec]: the proleptic Gregorian ordinal of its    *)
(*     day (date.toordinal) and the second of that day;                    *)
(*   - a float that is a multiple of 1/7 is kept as its numerator over 7;  *)
(*     a quotient is kept as the pair << numerator, denominator >>.        *)
(***************************************************************************)
EXTENDS Integers, Sequences, FiniteSets, TLC

VARIABLES
    \* the run: which script, its command line, environment, clock, and
    \* what the API would answer
    script, args, env, now, current_year, server,
    \* every script: position, resolved token, requests sent, lines
    \* printed, exit status, files written
    pc, TOKEN, requests, stdout, exit_status, files,
    \* work_summary.py and monthly_code_metrics_analysis.py
    start_date, end_date, all_prs, has_next, cursor, output,
    \* yearly_contribution_summary.py
    years_to_process, year_i, displayed,
    \* monthly_productivity_analysis.py
    all_contributions, weekly_stats, monthly_stats, monthly_data,
    \* the graphs of the two monthly scripts
    active_months, moving_avg

inputs == << script, args, env, now, current_year, server >>

wsVars == << start_date, end_date, all_prs, has_next, cursor, output >>

ysVars == << years_to_process, year_i, displayed >>

mpVars == << all_contributions, weekly_stats, monthly_stats, monthly_data >>
graphVars == << active_months, moving_avg >>

vars == << inputs, pc, TOKEN, requests, stdout, exit_status, files,
           wsVars, ysVars, mpVars, graphVars >>

(***************************************************************************)
(* Python values                                                           *)
(***************************************************************************)
None == << >>

Some(v) == << v >>

\* truth value of an optional string: None and "" are false
Truthy(opt) == opt # None /\ opt[1] # ""

\* truth value of an optional date argument: None and "" are false
TruthyDate(opt) == opt # None /\ opt[1].text # ""

\* truth value of an optional integer: None and 0 are false
TruthyInt(opt) == opt # None /\ opt[1] # 0

Range(s) == { s[i] : i \in 1..Len(s) }

RECURSIVE SumSeq(_)
SumSeq(s) == IF s = << >> THEN 0 ELSE Head(s) + SumSeq(Tail(s))

(***************************************************************************)
(* Calendar arithmetic of the datetime module                              *)
(***************************************************************************)
IsLeap(y) == y % 4 = 0 /\ (y % 100 # 0 \/ y % 400 = 0)

DaysInMonth(y, m) ==
    IF m = 2 THEN (IF IsLeap(y) THEN 29 ELSE 28)
    ELSE IF m \in {4, 6, 9, 11} THEN 30 ELSE 31

DaysBeforeYear(y) ==
    (y - 1) * 365 + (y - 1) \div 4 - (y - 1) \div 100 + (y - 1) \div 400

RECURSIVE DaysBeforeMonth(_, _)
DaysBeforeMonth(y, m) ==
    IF m = 1 THEN 0 ELSE DaysBeforeMonth(y, m - 1) + DaysInMonth(y, m - 1)

Ymd2Ord(y, m, d) == DaysBeforeYear(y) + DaysBeforeMonth(y, m) + d

\* the year of day n: a year has 365 or 366 days, which brackets it
YearOfOrd(n) ==
    CHOOSE y \in (n \div 366)..(n \div 365 + 1) :
        DaysBeforeYear(y) < n /\ n <= DaysBeforeYear(y + 1)

MonthOfOrd(n) ==
    LET y == YearOfOrd(n)
        k == n - DaysBeforeYear(y)
    IN  CHOOSE m \in 1..12 :
            DaysBeforeMonth(y, m) < k /\ k <= DaysBeforeMonth(y, m) + DaysInMonth(y, m)

DayOfOrd(n) ==
    LET y == YearOfOrd(n)
    IN  n - DaysBeforeYear(y) - DaysBeforeMonth(y, MonthOfOrd(n))

\* date.isoweekday() in place of date.weekday(): Monday is 1
IsoWeekday(n) == ((n + 6) % 7) + 1

\* date.weekday(): Monday is 0
Weekday(n) == (n + 6) % 7

Dt(o, s) == [ord |-> o, sec |-> s]

DtLT(a, b) == a.ord < b.ord \/ (a.ord = b.ord /\ a.sec < b.sec)

DtLE(a, b) == a.ord < b.ord \/ (a.ord = b.ord /\ a.sec <= b.sec)

\* dt - timedelta(days=n)
MinusDays(dt, n) == Dt(dt.ord - n, dt.sec)


(***************************************************************************)
(* Bounds of the model                                                     *)
(***************************************************************************)
\* longest list of pull requests the modelled account has
MaxPRs == 3

\* largest number of nodes the API puts on one page
MaxPageSize == 2

(***************************************************************************)
(* Strings the scripts parse                                               *)
(*                                                                         *)
(* A --start/--end argument is kept as the fields the format %Y-%m-%d      *)
(* looks at: the number of digits and the value of the year, month and day *)
(* fields, and whether characters are left after the day.                  *)
(***************************************************************************)
DateStr(text, yd, y, md, m, dd, d, rest) ==
    [text |-> text, yd |-> yd, y |-> y, md |-> md, m |-> m,
     dd |-> dd, d |-> d, rest |-> rest]

\* the regular expression _strptime builds for "%Y-%m-%d": four digits,
\* a month 1..12 and a day 1..31 of one or two digits, nothing after them
StrptimeMatches(s) ==
    /\ s.yd = 4
    /\ s.md \in {1, 2} /\ s.m \in 1..12
    /\ s.dd \in {1, 2} /\ s.d \in 1..31
    /\ ~ s.rest

\* the range checks without the length of the month
DatetimeFieldsAnyDay(y, m, d) ==
    /\ y \in 1..9999
    /\ m \in 1..12
    /\ d \in 1..31

\* the range checks of the datetime constructor
DatetimeFieldsOk(y, m, d) ==
    /\ y \in 1..9999
    /\ m \in 1..12
    /\ d \in 1..DaysInMonth(y, m)

\* datetime.strptime(s, "%Y-%m-%d"): None stands for ValueError
Strptime(s) ==
    IF StrptimeMatches(s) /\ DatetimeFieldsOk(s.y, s.m, s.d)
    THEN Some(Dt(Ymd2Ord(s.y, s.m, s.d), 0))
    ELSE None

\* a createdAt/updatedAt value of the API, "YYYY-MM-DDTHH:MM:SSZ"
Stamp(y, m, d, sec) == [y |-> y, m |-> m, d |-> d, sec |-> sec]

\* datetime.fromisoformat(ts.replace("Z", "+00:00"))
FromIso(ts) == Dt(Ymd2Ord(ts.y, ts.m, ts.d), ts.sec)

(***************************************************************************)
(* Output of the scripts                                                   *)
(***************************************************************************)
Line(tag) == [line |-> tag, text |-> None]

Echo(tag) == stdout' = Append(stdout, Line(tag))

Exit(code, tag) ==
    /\ stdout' = Append(stdout, Line(tag))
    /\ exit_status' = Some(code)
    /\ pc' = "exit"

(***************************************************************************)
(* Token resolution, the same three lines in every script with -t/--token  *)
(***************************************************************************)
\* the environment variable taking precedence over -t
ResolveTokenEnvFirst(token, environ) ==
    IF Truthy(environ.GITHUB_TOKEN) THEN environ.GITHUB_TOKEN ELSE token

\* TOKEN = args.token if args.token else os.environ.get("GITHUB_TOKEN")
ResolveToken(token, environ) ==
    IF Truthy(token) THEN token ELSE environ.GITHUB_TOKEN

\* if not TOKEN: print(...); exit(1)
TokenStep(nextpc) ==
    LET t == ResolveToken(args.token, env)
    IN  /\ TOKEN' = t
        /\ IF ~ Truthy(t)
           THEN Exit(1, "Error: GitHub token required")
           ELSE /\ pc' = nextpc
                /\ UNCHANGED << stdout, exit_status >>

\* one requests.post: the request as the server sees it
Request(kind, token, cur, from, to) ==
    [script |-> script, kind |-> kind, authorization |-> token,
     after |-> cur, from |-> from, to |-> to]

(***************************************************************************)
(* work_summary.py                                                         *)
(***************************************************************************)
\* lines 87-131: the date range of the period option that was given; None
\* when the script prints an error and exits instead
DateRange(a, n) ==
    LET today_start == Dt(n.ord, 0)
    IN  CASE a.period = "today"      -> Some(<< today_start, n >>)
          [] a.period = "yesterday"  -> Some(<< MinusDays(today_start, 1), today_start >>)
          [] a.period = "last_week"  -> Some(<< MinusDays(n, 7), n >>)
          [] a.period = "last_month" -> Some(<< MinusDays(n, 30), n >>)
          [] a.period = "this_week"  -> Some(<< MinusDays(today_start, Weekday(n.ord)), n >>)
          [] a.period = "this_month" ->
                Some(<< Dt(Ymd2Ord(YearOfOrd(n.ord), MonthOfOrd(n.ord), 1), 0), n >>)
          [] a.period = "last_year"  -> Some(<< MinusDays(n, 365), n >>)
          [] a.period = "custom"     ->
                IF ~ TruthyDate(a.start) \/ ~ TruthyDate(a.end) THEN None
                ELSE LET s == Strptime(a.start[1])
                         e == Strptime(a.end[1])
                     IN  IF s = None \/ e = None THEN None
                         ELSE Some(<< s[1], Dt(e[1].ord, 86399) >>)

DateRangeError(a) ==
    IF ~ TruthyDate(a.start) \/ ~ TruthyDate(a.end)
    THEN "Error: --custom requires both --start and --end dates"
    ELSE "Error: Invalid date format. Use YYYY-MM-DD."

\* line 209 without the upper bound of the updatedAt test
InDateRangeNoEnd(pr, sd, ed) ==
    LET created_at == FromIso(pr.createdAt)
        updated_at == FromIso(pr.updatedAt)
    IN  \/ DtLE(sd, created_at) /\ DtLE(created_at, ed)
        \/ DtLE(sd, updated_at)

\* line 209: the pull request was created or updated in the date range
InDateRange(pr, sd, ed) ==
    LET created_at == FromIso(pr.createdAt)
        updated_at == FromIso(pr.updatedAt)
    IN  \/ DtLE(sd, created_at) /\ DtLE(created_at, ed)
        \/ DtLE(sd, updated_at) /\ DtLE(updated_at, ed)

\* line 213: both dates of the pull request lie before the start date
PastStart(pr, sd) ==
    DtLT(FromIso(pr.createdAt), sd) /\ DtLT(FromIso(pr.updatedAt), sd)

\* lines 204-215: the for loop over one page; stop is the break
RECURSIVE ScanPage(_, _, _, _)
ScanPage(prs, acc, sd, ed) ==
    IF prs = << >> THEN [all |-> acc, stop |-> FALSE]
    ELSE LET pr   == Head(prs)
             acc2 == IF InDateRange(pr, sd, ed) THEN Append(acc, pr) ELSE acc
         IN  IF PastStart(pr, sd)
             THEN [all |-> acc2, stop |-> TRUE]
             ELSE ScanPage(Tail(prs), acc2, sd, ed)

\* the pullRequests connection of the API: the page after a cursor.  A
\* cursor is the number of nodes that precede the page.
PageAfter(srv, cur) ==
    LET from  == IF cur = None THEN 0 ELSE cur[1]
        last  == IF from + srv.page_size < Len(srv.prs)
                 THEN from + srv.page_size ELSE Len(srv.prs)
        nodes == SubSeq(srv.prs, from + 1, last)
    IN  [nodes |-> nodes,
         pageInfo |-> [hasNextPage |-> last < Len(srv.prs),
                       endCursor   |-> IF nodes = << >> THEN None ELSE Some(last)]]

\* lines 75-81
WS_Token ==
    /\ script = "work_summary" /\ pc = "token"
    /\ TokenStep("dates")
    /\ UNCHANGED << inputs, graphVars, ysVars, mpVars, start_date, end_date, requests,
                    all_prs, has_next, cursor, output, files >>

\* lines 83-177
WS_DateRange ==
    /\ script = "work_summary" /\ pc = "dates"
    /\ LET r == DateRange(args, now)
       IN  IF r = None
           THEN /\ Exit(1, DateRangeError(args))
                /\ UNCHANGED << start_date, end_date, all_prs, has_next, cursor >>
           ELSE /\ start_date' = Some(r[1][1])
                /\ end_date' = Some(r[1][2])
                /\ Echo("Fetching work summary")
                /\ all_prs' = << >>
                /\ has_next' = TRUE
                /\ cursor' = None
                /\ pc' = "fetch"
                /\ UNCHANGED exit_status
    /\ UNCHANGED << inputs, graphVars, ysVars, mpVars, TOKEN, requests, output, files >>

\* lines 180-225: one iteration of the while loop.  The request either
\* raises (connection error, timeout, HTTP status), or returns a body
\* with "errors", or returns the page after the cursor.
WS_FetchPage ==
    /\ script = "work_summary" /\ pc = "fetch" /\ has_next
    /\ requests' = Append(requests, Request("pullRequests", TOKEN, cursor, None, None))
    /\ \E outcome \in {"ok", "errors", "raise"} :
         IF outcome = "raise"
         THEN /\ Echo("Error fetching PRs")
              /\ pc' = "fetched"
              /\ UNCHANGED << all_prs, has_next, cursor >>
         ELSE IF outcome = "errors"
         THEN /\ Echo("Error: errors")
              /\ pc' = "fetched"
              /\ UNCHANGED << all_prs, has_next, cursor >>
         ELSE LET pr_data == PageAfter(server, cursor)
                  scan    == ScanPage(pr_data.nodes, all_prs, start_date[1], end_date[1])
              IN  /\ all_prs' = scan.all
                  /\ IF scan.stop
                     THEN /\ has_next' = FALSE
                          /\ cursor' = cursor
                     ELSE /\ has_next' = pr_data.pageInfo.hasNextPage
                          /\ cursor' = pr_data.pageInfo.endCursor
                  /\ pc' = IF has_next' THEN "fetch" ELSE "fetched"
                  /\ UNCHANGED stdout
    /\ UNCHANGED << inputs, graphVars, ysVars, mpVars, TOKEN, start_date, end_date,
                    exit_status, output, files >>

\* lines 236-245: the key under which grouped_prs files a pull request.
\* A repository name is kept as its rank in the order of sorted(); a
\* "%Y-%m-%d" key as the ordinal of the day, which sorts the same way.
GroupKey(pr, group_by) ==
    CASE group_by = "repo" -> pr.repo
      [] group_by = "date" -> FromIso(pr.createdAt).ord
      [] OTHER             -> 0

\* sorted(grouped_prs.keys())
RECURSIVE SortedKeys(_)
SortedKeys(S) ==
    IF S = {} THEN << >>
    ELSE LET least == CHOOSE k \in S : \A j \in S : k <= j
         IN  << least >> \o SortedKeys(S \ {least})

\* the pull requests in the order the text and markdown reports list them
RECURSIVE GroupedOrder(_, _, _)
GroupedOrder(keys, prs, group_by) ==
    IF keys = << >> THEN << >>
    ELSE LET InGroup(pr) == GroupKey(pr, group_by) = Head(keys)
         IN  SelectSeq(prs, InGroup) \o GroupedOrder(Tail(keys), prs, group_by)

Numbers(prs) == [i \in 1..Len(prs) |-> prs[i].number]

CountState(prs, st) == Cardinality({ i \in 1..Len(prs) : prs[i].state = st })

\* lines 248-253
Statistics(prs) ==
    LET total_additions == SumSeq([i \in 1..Len(prs) |-> prs[i].additions])
        total_deletions == SumSeq([i \in 1..Len(prs) |-> prs[i].deletions])
    IN  [total_prs     |-> Len(prs),
         merged        |-> CountState(prs, "MERGED"),
         open          |-> CountState(prs, "OPEN"),
         closed        |-> CountState(prs, "CLOSED"),
         lines_added   |-> total_additions,
         lines_deleted |-> total_deletions,
         total_changes |-> total_additions + total_deletions]

\* lines 256-302 and 304-350: the statistics block only with --include-stats,
\* a heading per group unless --group-by none, the pull requests by group
GenerateGrouped(fmt, a, prs) ==
    LET keys == SortedKeys({ GroupKey(prs[i], a.group_by) : i \in 1..Len(prs) })
    IN  [format        |-> fmt,
         statistics    |-> IF a.include_stats THEN Some(Statistics(prs)) ELSE None,
         headings      |-> IF a.group_by # "none" THEN keys ELSE << >>,
         pull_requests |-> Numbers(GroupedOrder(keys, prs, a.group_by))]

generate_text_output(a, prs) == GenerateGrouped("text", a, prs)

generate_markdown_output(a, prs) == GenerateGrouped("markdown", a, prs)

\* lines 352-385: the "statistics" object is always part of the summary
generate_json_output(a, prs) ==
    [format        |-> "json",
     statistics    |-> Some(Statistics(prs)),
     headings      |-> << >>,
     pull_requests |-> Numbers(prs)]

\* lines 388-393
GenerateOutput(a, prs) ==
    CASE a.format = "text"     -> generate_text_output(a, prs)
      [] a.format = "markdown" -> generate_markdown_output(a, prs)
      [] a.format = "json"     -> generate_json_output(a, prs)

\* lines 227-393
WS_Summarize ==
    /\ script = "work_summary" /\ pc = "fetched"
    /\ IF all_prs = << >>
       THEN /\ stdout' = stdout \o << Line("Found PRs"), Line("No work found for this period.") >>
            /\ exit_status' = Some(0)
            /\ pc' = "exit"
            /\ UNCHANGED output
       ELSE /\ Echo("Found PRs")
            /\ output' = Some(GenerateOutput(args, all_prs))
            /\ pc' = "print"
            /\ UNCHANGED exit_status
    /\ UNCHANGED << inputs, graphVars, ysVars, mpVars, TOKEN, start_date, end_date,
                    requests, all_prs, has_next, cursor, files >>

\* line 396
WS_Print ==
    /\ script = "work_summary" /\ pc = "print"
    /\ stdout' = Append(stdout, [line |-> "output", text |-> output])
    /\ pc' = "export"
    /\ UNCHANGED << inputs, graphVars, ysVars, mpVars, TOKEN, start_date, end_date,
                    requests, all_prs, has_next, cursor, exit_status, output,
                    files >>

\* lines 399-402 without the test of args.export, writing summary.out
WS_ExportAlways ==
    /\ script = "work_summary" /\ pc = "export"
    /\ files' = [files EXCEPT !["summary.out"] = output]
    /\ Echo("Summary exported")
    /\ exit_status' = Some(0)
    /\ pc' = "done"
    /\ UNCHANGED << inputs, graphVars, ysVars, mpVars, TOKEN, start_date, end_date,
                    requests, all_prs, has_next, cursor, output >>

\* lines 399-402; falling off the end of the script is exit status 0
WS_Export ==
    /\ script = "work_summary" /\ pc = "export"
    /\ IF Truthy(args.export)
       THEN /\ files' = [files EXCEPT ![args.export[1]] = output]
            /\ Echo("Summary exported")
       ELSE UNCHANGED << files, stdout >>
    /\ exit_status' = Some(0)
    /\ pc' = "done"
    /\ UNCHANGED << inputs, graphVars, ysVars, mpVars, TOKEN, start_date, end_date,
                    requests, all_prs, has_next, cursor, output >>

NextWS ==
    \/ WS_Token
    \/ WS_DateRange
    \/ WS_FetchPage
    \/ WS_Summarize
    \/ WS_Print
    \/ WS_Export

(***************************************************************************)
(* Inputs of work_summary.py: command lines, environments, clocks and the  *)
(* pull requests of the account                                            *)
(***************************************************************************)
ArgTokens == { None, Some(""), Some("ghp_arg") }

EnvTokens == { None, Some(""), Some("ghp_env") }

Paths == { "summary.out", "monthly_code_metrics_data.json", "monthly_productivity_data.json" }

\* values of --start and --end
DateTexts ==
    { DateStr("2025-01-05", 4, 2025, 2, 1, 2, 5, FALSE),
      DateStr("2025-01-06", 4, 2025, 2, 1, 2, 6, FALSE),
      DateStr("2025-1-5", 4, 2025, 1, 1, 1, 5, FALSE),
      DateStr("2024-02-29", 4, 2024, 2, 2, 2, 29, FALSE),
      DateStr("2025-02-29", 4, 2025, 2, 2, 2, 29, FALSE),
      DateStr("2025-04-31", 4, 2025, 2, 4, 2, 31, FALSE),
      DateStr("2025-13-01", 4, 2025, 2, 13, 2, 1, FALSE),
      DateStr("2025-01-00", 4, 2025, 2, 1, 2, 0, FALSE),
      DateStr("0000-01-01", 4, 0, 2, 1, 2, 1, FALSE),
      DateStr("25-01-05", 2, 25, 2, 1, 2, 5, FALSE),
      DateStr("2025-01-05x", 4, 2025, 2, 1, 2, 5, TRUE),
      DateStr("", 0, 0, 0, 0, 0, 0, FALSE) }

DateArgs == { None } \cup { Some(t) : t \in DateTexts }

PresetPeriods ==
    { "today", "yesterday", "last_week", "last_month", "this_week",
      "this_month", "last_year" }

\* number of consecutive days the clock is drawn from, starting on
\* Monday 2024-02-26: every weekday, the end of a leap February
NowDays == 8

NowSeconds == { 0, 1, 43200, 86399 }

Clocks ==
    { Dt(o, sec) : o \in ({ Ymd2Ord(2024, 2, 26) + k : k \in 0..(NowDays - 1) }
                          \cup { Ymd2Ord(2024, 12, 31), Ymd2Ord(2025, 1, 1) }),
                   sec \in NowSeconds }

\* instants around the custom range 2025-01-05 .. 2025-01-06
Stamps ==
    << Stamp(2025, 1, 4, 43200), Stamp(2025, 1, 5, 0),
       Stamp(2025, 1, 6, 86399), Stamp(2025, 1, 7, 0) >>

\* (createdAt, updatedAt) of a pull request: it is never updated before
\* it is created
StampPairs == { << c, u >> \in (1..Len(Stamps)) \X (1..Len(Stamps)) : c <= u }

\* the API returns the pull requests ordered by CREATED_AT, DESC
PairLists(n) ==
    { l \in [1..n -> StampPairs] : \A i \in 1..(n - 1) : l[i][1] >= l[i + 1][1] }

PRStates == << "MERGED", "OPEN", "CLOSED" >>

MkPR(i, pair) ==
    [number    |-> i,
     createdAt |-> Stamps[pair[1]],
     updatedAt |-> Stamps[pair[2]],
     state     |-> PRStates[(i % 3) + 1],
     additions |-> 10 * i,
     deletions |-> i,
     repo      |-> 1 + (i % 2)]

MkServer(l, ps) ==
    [prs |-> [i \in 1..Len(l) |-> MkPR(i, l[i])], page_size |-> ps, created_year |-> 2020]

WSArgs(token, period, start, end, format, group_by, export, include_stats) ==
    [token |-> token, period |-> period, start |-> start, end |-> end,
     format |-> format, group_by |-> group_by, export |-> export,
     include_stats |-> include_stats]

Scenario(a, e, n, srv) == [args |-> a, env |-> e, now |-> n, server |-> srv]

Jan5 == Some(DateStr("2025-01-05", 4, 2025, 2, 1, 2, 5, FALSE))

Jan6 == Some(DateStr("2025-01-06", 4, 2025, 2, 1, 2, 6, FALSE))

SomeEnv == [GITHUB_TOKEN |-> Some("ghp_env")]

Noon == Dt(Ymd2Ord(2025, 1, 7), 43200)

ThreeInRange == MkServer(<< << 3, 3 >>, << 2, 3 >>, << 2, 2 >> >>, 2)

\* every way of giving or not giving a token
WS_TokenScenarios ==
    { Scenario(WSArgs(t, "custom", Jan5, Jan6, "text", "repo", None, FALSE),
               [GITHUB_TOKEN |-> e], Noon, ThreeInRange) :
        t \in ArgTokens, e \in EnvTokens }

\* every preset period at every clock
WS_PresetScenarios ==
    { Scenario(WSArgs(None, p, None, None, "text", "repo", None, FALSE),
               SomeEnv, n, ThreeInRange) :
        p \in PresetPeriods, n \in Clocks }

\* --custom with every pair of --start and --end values
WS_CustomScenarios ==
    { Scenario(WSArgs(None, "custom", s, e, "text", "repo", None, FALSE),
               SomeEnv, Noon, ThreeInRange) :
        s \in DateArgs, e \in DateArgs }

\* every list of pull requests, split into pages of every size
WS_FetchScenarios ==
    { Scenario(WSArgs(None, "custom", Jan5, e, "text", "repo", None, FALSE),
               SomeEnv, Noon, MkServer(l, ps)) :
        e \in { Jan5, Jan6 },
        l \in UNION { PairLists(n) : n \in 0..MaxPRs },
        ps \in 1..MaxPageSize }

\* every combination of the output options
WS_OutputScenarios ==
    { Scenario(WSArgs(None, "custom", Jan5, Jan6, f, g, x, st),
               SomeEnv, Noon, ThreeInRange) :
        f \in { "text", "markdown", "json" },
        g \in { "repo", "date", "none" },
        x \in { None, Some("summary.out") },
        st \in BOOLEAN }

WS_Scenarios ==
    WS_TokenScenarios \cup WS_PresetScenarios \cup WS_CustomScenarios
        \cup WS_FetchScenarios \cup WS_OutputScenarios

\* the variables of a run before its first statement
InitRun ==
    /\ TOKEN = None
    /\ start_date = None
    /\ end_date = None
    /\ requests = << >>
    /\ all_prs = << >>
    /\ has_next = FALSE
    /\ cursor = None
    /\ stdout = << >>
    /\ exit_status = None
    /\ output = None
    /\ years_to_process = << >>
    /\ year_i = 0
    /\ displayed = << >>
    /\ all_contributions = << >>
    /\ weekly_stats = << >>
    /\ monthly_stats = << >>
    /\ active_months = << >>
    /\ moving_avg = << >>

\* the state after parser.parse_args() returned
InitCommon ==
    /\ InitRun
    /\ files = [p \in Paths |-> None]
    /\ monthly_data = << >>

InitWS ==
    /\ script = "work_summary"
    /\ pc = "token"
    /\ \E sc \in WS_Scenarios :
         /\ args = sc.args
         /\ env = sc.env
         /\ now = sc.now
         /\ server = sc.server
    /\ current_year = YearOfOrd(now.ord)
    /\ InitCommon

SpecWS == InitWS /\ [][NextWS]_vars

(***************************************************************************)
(* Properties of work_summary.py                                           *)
(***************************************************************************)
WS == script = "work_summary"

Printed(tag) == \E i \in 1..Len(stdout) : stdout[i].line = tag

\* the while loop was left
FetchLoopEnded ==
    \/ pc \in { "fetched", "print", "export", "done" }
    \/ pc = "exit" /\ start_date # None

FetchFailed == Printed("Error fetching PRs") \/ Printed("Error: errors")

Between(lo, t, hi) == ~ DtLT(t, lo) /\ ~ DtLT(hi, t)

\* createdAt or updatedAt of the pull request lies in [start_date, end_date]
CreatedOrUpdatedInRange(pr) ==
    \/ Between(start_date[1], FromIso(pr.createdAt), end_date[1])
    \/ Between(start_date[1], FromIso(pr.updatedAt), end_date[1])

Occurrences(pr) == Cardinality({ i \in 1..Len(all_prs) : all_prs[i].number = pr.number })

\* C1: when the fetch loop of work_summary has ended without an error,
\* every pull request of the account that was created or updated in
\* [start_date, end_date] is in all_prs.
C1_EveryPRInRangeIsCollected ==
    (WS /\ FetchLoopEnded /\ ~ FetchFailed) =>
        \A i \in 1..Len(server.prs) :
            CreatedOrUpdatedInRange(server.prs[i]) => Occurrences(server.prs[i]) >= 1

\* C2: in every state of work_summary every pull request in all_prs was
\* created or updated in [start_date, end_date], it is one the API holds,
\* and no pull request is in all_prs twice.
C2_CollectedInRangeAndOnce ==
    WS =>
        /\ \A i \in 1..Len(all_prs) :
              /\ CreatedOrUpdatedInRange(all_prs[i])
              /\ all_prs[i] \in Range(server.prs)
        /\ \A i \in 1..Len(server.prs) : Occurrences(server.prs[i]) <= 1

\* C2 witness: two pages were fetched and pull requests of both are kept
C2_Witness ==
    /\ WS /\ pc = "fetched"
    /\ Len(requests) >= 2
    /\ Len(all_prs) >= 2
    /\ Len(all_prs) < Len(server.prs)

\* C4: the generated output of work_summary holds the statistics exactly
\* when --include-stats was given, whatever the --format.
C4_StatisticsIffIncludeStats ==
    (WS /\ output # None) => ((output[1].statistics # None) <=> args.include_stats)

\* the string has the three fields of a year-month-day date and they name
\* a day of the calendar: some ordinal has this year, month and day
HasDateFields(s) ==
    /\ s.yd = 4 /\ s.md \in 1..2 /\ s.dd \in 1..2 /\ ~ s.rest
    /\ s.y >= 1 /\ s.m \in 1..12

NamesCalendarDay(s, o) ==
    /\ HasDateFields(s)
    /\ LET y == YearOfOrd(o)
            k == o - DaysBeforeYear(y)
        IN  /\ y = s.y
            /\ DaysBeforeMonth(y, s.m) < k
            /\ k - DaysBeforeMonth(y, s.m) = s.d
            /\ s.m = 12 \/ k <= DaysBeforeMonth(y, s.m + 1)

\* the value names a day: the day d of a month, if there is one, is the
\* day d - 1 days after the first of the month
ValidDateArg(opt) ==
    /\ opt # None
    /\ HasDateFields(opt[1])
    /\ opt[1].d >= 1
    /\ NamesCalendarDay(opt[1], Ymd2Ord(opt[1].y, opt[1].m, 1) + opt[1].d - 1)

PastDateRange == pc \notin { "token", "dates" } /\ Truthy(TOKEN)

KnownMonday == Ymd2Ord(2024, 1, 1)

\* C9: the preset periods of work_summary: --today is [00:00 today, now],
\* --yesterday is [00:00 yesterday, 00:00 today], --last-week, --last-month
\* and --last-year are [now - 7, 30, 365 days, now], --this-week starts at
\* 00:00 on the Monday of the current week, --this-month at 00:00 on day 1
\* of the current month, both end at now; start_date <= end_date <= now.
C9_PresetPeriods ==
    (WS /\ args.period # "custom" /\ start_date # None) =>
        LET sd == start_date[1]
            ed == end_date[1]
            midnight == Dt(now.ord, 0)
        IN  /\ DtLE(sd, ed) /\ DtLE(ed, now)
            /\ args.period = "today" => sd = midnight /\ ed = now
            /\ args.period = "yesterday" => sd = Dt(now.ord - 1, 0) /\ ed = midnight
            /\ args.period = "last_week" => sd = Dt(now.ord - 7, now.sec) /\ ed = now
            /\ args.period = "last_month" => sd = Dt(now.ord - 30, now.sec) /\ ed = now
            /\ args.period = "last_year" => sd = Dt(now.ord - 365, now.sec) /\ ed = now
            /\ args.period = "this_week" =>
                  /\ sd.sec = 0 /\ ed = now
                  /\ sd.ord \in (now.ord - 6)..now.ord
                  /\ (sd.ord - KnownMonday) % 7 = 0
            /\ args.period = "this_month" =>
                  /\ sd.sec = 0 /\ ed = now
                  /\ DayOfOrd(sd.ord) = 1
                  /\ MonthOfOrd(sd.ord) = MonthOfOrd(now.ord)
                  /\ YearOfOrd(sd.ord) = YearOfOrd(now.ord)

\* C9 witness: --this-week on a Sunday, six days after its Monday
C9_WitnessSunday ==
    /\ WS /\ args.period = "this_week" /\ start_date # None
    /\ start_date[1].ord = now.ord - 6

(***************************************************************************)
(* yearly_contribution_summary.py                                          *)
(***************************************************************************)
\* the uncaught exception of raise_for_status or of the connection: the
\* interpreter prints the traceback and exits with status 1
Traceback == Exit(1, "Traceback")

\* list(range(first, last + 1)) without its last year
YearRangeExclusive(first, last) ==
    IF last - 1 < first THEN << >> ELSE [i \in 1..(last - first) |-> first + i - 1]

\* line 182: list(range(creation_year, current_year + 1))
YearRange(first, last) ==
    IF last < first THEN << >> ELSE [i \in 1..(last - first + 1) |-> first + i - 1]

\* lines 103-107: the variables of the query for one year
YearVariables(year) ==
    [from |-> Some(Stamp(year, 1, 1, 0)),
     to   |-> Some(Stamp(year, 12, 31, 23 * 3600 + 59 * 60 + 59))]

\* lines 78-175: request the year, stop on failure, else print the report.
\* after is the position of the script when the function returns.
fetch_and_display_contributions(year, after) ==
    /\ requests' = Append(requests,
                          Request("contributionsCollection", TOKEN, None,
                                  YearVariables(year).from, YearVariables(year).to))
    /\ \E outcome \in {"ok", "errors", "raise"} :
         IF outcome = "raise"
         THEN Traceback /\ UNCHANGED displayed
         ELSE IF outcome = "errors"
         THEN Exit(1, "API errors:") /\ UNCHANGED displayed
         ELSE /\ displayed' = Append(displayed, year)
              /\ Echo("CONTRIBUTION SUMMARY")
              /\ pc' = after
              /\ exit_status' = IF after = "done" THEN Some(0) ELSE exit_status

\* lines 38-44
YS_Token ==
    /\ script = "yearly_contribution_summary" /\ pc = "token"
    /\ TokenStep("years")
    /\ UNCHANGED << inputs, graphVars, wsVars, ysVars, mpVars, requests, files >>

\* lines 46-50
YS_CheckYears ==
    /\ script = "yearly_contribution_summary" /\ pc = "years"
    /\ IF args.all_years /\ TruthyInt(args.year)
       THEN Exit(1, "Error: Cannot specify both --year and --all-years")
       ELSE /\ pc' = "main"
            /\ UNCHANGED << stdout, exit_status >>
    /\ UNCHANGED << inputs, graphVars, wsVars, ysVars, mpVars, TOKEN, requests, files >>

\* lines 179-185 with get_account_creation_year, lines 52-75
YS_AccountCreation ==
    /\ script = "yearly_contribution_summary" /\ pc = "main" /\ args.all_years
    /\ requests' = Append(requests, Request("createdAt", TOKEN, None, None, None))
    /\ \E outcome \in {"ok", "errors", "raise"} :
         IF outcome = "raise"
         THEN Traceback /\ UNCHANGED << years_to_process, year_i >>
         ELSE IF outcome = "errors"
         THEN Exit(1, "API errors:") /\ UNCHANGED << years_to_process, year_i >>
         ELSE LET creation_year == server.created_year
                  years == YearRange(creation_year, current_year)
              IN  /\ years_to_process' = years
                  /\ year_i' = 1
                  /\ Echo("Fetching contributions for years")
                  /\ pc' = IF years = << >> THEN "done" ELSE "loop"
                  /\ exit_status' = IF years = << >> THEN Some(0) ELSE exit_status
    /\ UNCHANGED << inputs, graphVars, wsVars, mpVars, TOKEN, displayed, files >>

\* lines 187-188: one iteration of the loop over years_to_process
YS_NextYear ==
    /\ script = "yearly_contribution_summary" /\ pc = "loop"
    /\ year_i <= Len(years_to_process)
    /\ fetch_and_display_contributions(
           years_to_process[year_i],
           IF year_i = Len(years_to_process) THEN "done" ELSE "loop")
    /\ year_i' = year_i + 1
    /\ UNCHANGED << inputs, graphVars, wsVars, mpVars, TOKEN, years_to_process, files >>

\* lines 189-192
YS_SingleYear ==
    /\ script = "yearly_contribution_summary" /\ pc = "main" /\ ~ args.all_years
    /\ LET year_to_process == IF TruthyInt(args.year) THEN args.year[1] ELSE current_year
       IN  fetch_and_display_contributions(year_to_process, "done")
    /\ UNCHANGED << inputs, graphVars, wsVars, mpVars, TOKEN, years_to_process, year_i, files >>

NextYS ==
    \/ YS_Token
    \/ YS_CheckYears
    \/ YS_AccountCreation
    \/ YS_NextYear
    \/ YS_SingleYear

\* number of years before the current one in which the account may have
\* been created
MaxYears == 3

ThisYear == 2025

YearArgs == { None, Some(0 - 1), Some(0), Some(1), Some(2024), Some(2025), Some(2026) }

YSArgs(token, year, all_years) == [token |-> token, year |-> year, all_years |-> all_years]

\* the account was created up to MaxYears years ago, or, seen from a
\* clock west of UTC on New Year's Eve, in the year after the current one
InitYS ==
    /\ script = "yearly_contribution_summary"
    /\ pc = "token"
    /\ \E t \in ArgTokens, e \in { None, Some("ghp_env") }, y \in YearArgs, all \in BOOLEAN,
          cy \in (ThisYear - MaxYears)..(ThisYear + 1) :
         /\ args = YSArgs(t, y, all)
         /\ env = [GITHUB_TOKEN |-> e]
         /\ server = [prs |-> << >>, page_size |-> 1, created_year |-> cy]
    /\ now = Dt(Ymd2Ord(ThisYear, 6, 15), 43200)
    /\ current_year = ThisYear
    /\ InitCommon

SpecYS == InitYS /\ [][NextYS]_vars

(***************************************************************************)
(* Properties of yearly_contribution_summary.py                            *)
(***************************************************************************)
YS == script = "yearly_contribution_summary"

\* C5: whatever integer --year has, giving it together with --all-years
\* makes yearly_contribution_summary print "Cannot specify both --year and
\* --all-years" and exit with status 1 without sending a request.
C5_YearWithAllYearsRefused ==
    (YS /\ args.all_years /\ args.year # None) =>
        /\ requests = << >>
        /\ (pc \notin { "token", "years" } /\ Truthy(TOKEN)) =>
              /\ pc = "exit" /\ exit_status = Some(1)
              /\ Printed("Error: Cannot specify both --year and --all-years")

\* the year the command line asks for
RequestedYear == IF args.year # None THEN args.year[1] ELSE current_year

\* C6: without --all-years exactly one year is fetched and displayed: the
\* value of --year whatever integer it is, the current year only when
\* --year is absent.
C6_SingleYearIsTheRequestedOne ==
    (YS /\ ~ args.all_years) =>
        /\ Len(requests) <= 1
        /\ \A i \in 1..Len(requests) :
              /\ requests[i].kind = "contributionsCollection"
              /\ requests[i].from = Some(Stamp(RequestedYear, 1, 1, 0))
        /\ pc = "done" => displayed = << RequestedYear >> /\ Len(requests) = 1

EndOfYear == 23 * 3600 + 59 * 60 + 59

\* C7: with --all-years the first request asks for the account creation
\* date; the requests after it ask for the years from the creation year
\* upwards, one request a year in ascending order, each from 1 January
\* 00:00:00 to 31 December 23:59:59; a run that ends normally has asked for
\* every year up to the current one, current_year - creation_year + 1
\* requests.
C7_AllYearsAscendingOnce ==
    (YS /\ args.all_years) =>
        /\ requests # << >> => requests[1].kind = "createdAt"
        /\ \A i \in 2..Len(requests) :
              LET year == server.created_year + (i - 2)
              IN  /\ requests[i].kind = "contributionsCollection"
                  /\ year <= current_year
                  /\ requests[i].from = Some(Stamp(year, 1, 1, 0))
                  /\ requests[i].to = Some(Stamp(year, 12, 31, EndOfYear))
        /\ pc = "done" =>
              /\ Len(requests) - 1 = current_year - server.created_year + 1
              /\ Len(displayed) = Len(requests) - 1

\* C7 witness: the account is MaxYears years old and every year was asked for
C7_WitnessEveryYear ==
    /\ YS /\ args.all_years /\ pc = "done"
    /\ server.created_year = current_year - MaxYears
    /\ Len(requests) = MaxYears + 2

(***************************************************************************)
(* fetch_commit_contributions_2025.py                                      *)
(***************************************************************************)
\* lines 32-38
FC_Token ==
    /\ script = "fetch_commit_contributions_2025" /\ pc = "token"
    /\ TokenStep("fetch")
    /\ UNCHANGED << inputs, graphVars, wsVars, ysVars, mpVars, requests, files >>

\* lines 63-136
FC_Fetch ==
    /\ script = "fetch_commit_contributions_2025" /\ pc = "fetch"
    /\ requests' = Append(requests,
                          Request("contributionsCollection", TOKEN, None,
                                  Some(Stamp(2025, 1, 1, 0)),
                                  Some(Stamp(2025, 12, 31, 23 * 3600 + 59 * 60 + 59))))
    /\ \E outcome \in {"ok", "errors", "raise"} :
         IF outcome = "raise" THEN Traceback
         ELSE IF outcome = "errors" THEN Exit(1, "API errors:")
         ELSE /\ Echo("CONTRIBUTION SUMMARY")
              /\ pc' = "done"
              /\ exit_status' = Some(0)
    /\ UNCHANGED << inputs, graphVars, wsVars, ysVars, mpVars, TOKEN, files >>

NextFC ==
    \/ FC_Token
    \/ FC_Fetch

(***************************************************************************)
(* monthly_code_metrics_analysis.py                                        *)
(***************************************************************************)
\* lines 40-46
MC_Token ==
    /\ script = "monthly_code_metrics_analysis" /\ pc = "token"
    /\ TokenStep("user")
    /\ UNCHANGED << inputs, graphVars, wsVars, ysVars, mpVars, requests, files >>

\* lines 58-117
MC_User ==
    /\ script = "monthly_code_metrics_analysis" /\ pc = "user"
    /\ requests' = Append(requests, Request("createdAt", TOKEN, None, None, None))
    /\ \E outcome \in {"ok", "errors", "raise"} :
         IF outcome = "raise"
         THEN Traceback /\ UNCHANGED << all_prs, has_next, cursor >>
         ELSE IF outcome = "errors"
         THEN Exit(1, "API errors:") /\ UNCHANGED << all_prs, has_next, cursor >>
         ELSE /\ Echo("Fetching Pull Requests")
              /\ all_prs' = << >>
              /\ has_next' = TRUE
              /\ cursor' = None
              /\ pc' = "fetch"
              /\ UNCHANGED exit_status
    /\ UNCHANGED << inputs, graphVars, ysVars, mpVars, TOKEN, start_date, end_date, output, files >>

\* lines 119-157: one iteration of the while loop
MC_FetchPage ==
    /\ script = "monthly_code_metrics_analysis" /\ pc = "fetch" /\ has_next
    /\ requests' = Append(requests, Request("pullRequests", TOKEN, cursor, None, None))
    /\ \E outcome \in {"ok", "errors", "raise"} :
         IF outcome = "raise"
         THEN /\ Echo("Error")
              /\ pc' = "fetched"
              /\ UNCHANGED << all_prs, has_next, cursor >>
         ELSE IF outcome = "errors"
         THEN /\ Echo("Error fetching PRs")
              /\ pc' = "fetched"
              /\ UNCHANGED << all_prs, has_next, cursor >>
         ELSE LET pr_data == PageAfter(server, cursor)
              IN  /\ all_prs' = all_prs \o pr_data.nodes
                  /\ has_next' = pr_data.pageInfo.hasNextPage
                  /\ cursor' = pr_data.pageInfo.endCursor
                  /\ pc' = IF has_next' THEN "fetch" ELSE "fetched"
                  /\ UNCHANGED stdout
    /\ UNCHANGED << inputs, graphVars, ysVars, mpVars, TOKEN, start_date, end_date,
                    exit_status, output, files >>

\* lines 159-470: no pull request is exit status 1; else the monthly
\* report is printed and monthly_code_metrics_data.json written
MC_Report ==
    /\ script = "monthly_code_metrics_analysis" /\ pc = "fetched"
    /\ IF all_prs = << >>
       THEN Exit(1, "No Pull Requests found.") /\ UNCHANGED files
       ELSE /\ Echo("CODE METRICS")
            /\ files' = [files EXCEPT !["monthly_code_metrics_data.json"] =
                            Some([format |-> "monthly_code_metrics_data",
                                  statistics |-> None, headings |-> << >>,
                                  pull_requests |-> Numbers(all_prs)])]
            /\ pc' = "done"
            /\ exit_status' = Some(0)
    /\ UNCHANGED << inputs, graphVars, wsVars, ysVars, mpVars, TOKEN, requests >>

NextMC ==
    \/ MC_Token
    \/ MC_User
    \/ MC_FetchPage
    \/ MC_Report

(***************************************************************************)
(* The four scripts with -t/--token, each with every way of giving or not  *)
(* giving a token                                                          *)
(***************************************************************************)
TokenScripts ==
    { "fetch_commit_contributions_2025", "monthly_code_metrics_analysis",
      "work_summary", "yearly_contribution_summary" }

ArgsOf(s, t, all) ==
    CASE s = "work_summary" ->
            WSArgs(t, "custom", Jan5, Jan6, "text", "repo", Some("summary.out"), TRUE)
      [] s = "yearly_contribution_summary" -> YSArgs(t, None, all)
      [] s = "monthly_code_metrics_analysis" ->
            [token |-> t, detailed |-> FALSE, workdays_per_week |-> 5]
      [] OTHER -> [token |-> t]

InitTok ==
    /\ script \in TokenScripts
    /\ pc = "token"
    /\ \E t \in ArgTokens \cup { Some("ghp_env") }, e \in EnvTokens, all \in BOOLEAN :
         /\ args = ArgsOf(script, t, all)
         /\ env = [GITHUB_TOKEN |-> e]
    /\ \E ps \in 1..MaxPageSize : server = [ThreeInRange EXCEPT !.page_size = ps]
    /\ now = Noon
    /\ current_year = ThisYear
    /\ InitCommon

NextTok ==
    \/ NextWS
    \/ NextYS
    \/ NextFC
    \/ NextMC

SpecTok == InitTok /\ [][NextTok]_vars

TokenGiven(opt) == opt # None /\ opt # Some("")

\* C3: in the four scripts with -t/--token the Authorization header carries
\* the -t value when it is a non-empty string and else the GITHUB_TOKEN
\* variable; when neither is a non-empty string the script prints an error,
\* exits with status 1 and never sends a request.
C3_TokenResolution ==
    (script \in TokenScripts) =>
        /\ \A i \in 1..Len(requests) :
              /\ TokenGiven(args.token) => requests[i].authorization = args.token
              /\ ~ TokenGiven(args.token) =>
                    requests[i].authorization = env.GITHUB_TOKEN
        /\ (~ TokenGiven(args.token) /\ ~ TokenGiven(env.GITHUB_TOKEN)) =>
              /\ requests = << >>
              /\ pc # "token" =>
                    /\ pc = "exit" /\ exit_status = Some(1)
                    /\ stdout = << Line("Error: GitHub token required") >>

\* C3 witness: -t is empty, the request carries the token of the environment
C3_WitnessEnvironmentToken ==
    /\ script \in TokenScripts
    /\ args.token = Some("") /\ env.GITHUB_TOKEN = Some("ghp_env")
    /\ requests # << >> /\ requests[1].authorization = Some("ghp_env")

(***************************************************************************)
(* monthly_productivity_analysis.py                                        *)
(***************************************************************************)
\* datetime._isoweek1monday: the Monday of ISO week 1 of the year
IsoWeek1Monday(year) ==
    LET firstday     == Ymd2Ord(year, 1, 1)
        firstweekday == (firstday + 6) % 7
        week1monday  == firstday - firstweekday
    IN  IF firstweekday > 3 THEN week1monday + 7 ELSE week1monday

\* date.isocalendar(): << ISO year, ISO week >>
IsoCalendar(n) ==
    LET year == YearOfOrd(n)
        week == (n - IsoWeek1Monday(year)) \div 7
    IN  IF week < 0
        THEN << year - 1, ((n - IsoWeek1Monday(year - 1)) \div 7) + 1 >>
        ELSE IF week >= 52 /\ n >= IsoWeek1Monday(year + 1)
        THEN << year + 1, 1 >>
        ELSE << year, week + 1 >>

\* the contributionCalendar of the API for [from, to]: one entry for every
\* day from the day of from to the day of to that the account has
RECURSIVE CalendarDays(_, _, _)
CalendarDays(cal, first, last) ==
    IF first > last THEN << >>
    ELSE (IF first \in DOMAIN cal
          THEN << [date  |-> [y |-> YearOfOrd(first), m |-> MonthOfOrd(first),
                              d |-> DayOfOrd(first)],
                   count |-> cal[first]] >>
          ELSE << >>)
         \o CalendarDays(cal, first + 1, last)

\* lines 104-113: the first year starts at the creation date, the current
\* year ends now
YearWindow(year, created, created_year, cur_year, n) ==
    [from |-> IF year = created_year THEN created ELSE Stamp(year, 1, 1, 0),
     to   |-> IF year = cur_year
              THEN Stamp(YearOfOrd(n.ord), MonthOfOrd(n.ord), DayOfOrd(n.ord), n.sec)
              ELSE Stamp(year, 12, 31, 23 * 3600 + 59 * 60 + 59)]

\* lines 151-160: weekly_stats[week_key]["days_by_month"][month_key] gets
\* one more day and its contributions
RECURSIVE GroupByWeek(_, _)
GroupByWeek(contribs, acc) ==
    IF contribs = << >> THEN acc
    ELSE LET c         == Head(contribs)
             o         == Ymd2Ord(c.date.y, c.date.m, c.date.d)
             week_key  == IsoCalendar(o)
             month_key == << c.date.y, c.date.m >>
             months    == IF week_key \in DOMAIN acc THEN acc[week_key] ELSE << >>
             old       == IF month_key \in DOMAIN months THEN months[month_key]
                          ELSE [count |-> 0, contributions |-> 0]
             new       == [count |-> old.count + 1,
                           contributions |-> old.contributions + c.count]
             months2   == [k \in DOMAIN months \cup { month_key } |->
                              IF k = month_key THEN new ELSE months[k]]
         IN  GroupByWeek(Tail(contribs),
                         [k \in DOMAIN acc \cup { week_key } |->
                             IF k = week_key THEN months2 ELSE acc[k]])

RECURSIVE SumOver(_, _)
SumOver(S, f) ==
    IF S = {} THEN 0
    ELSE LET x == CHOOSE x \in S : TRUE IN f[x] + SumOver(S \ { x }, f)

\* lines 166-180 with every week counted as a whole week for each of the
\* months it has days in
MonthlyStatsWholeWeek(weekly) ==
    LET months == UNION { DOMAIN weekly[w] : w \in DOMAIN weekly }
        WeeksOf(mk) == { w \in DOMAIN weekly : mk \in DOMAIN weekly[w] }
    IN  [mk \in months |->
            [total |-> SumOver(WeeksOf(mk),
                               [w \in WeeksOf(mk) |-> weekly[w][mk].contributions]),
             week_fraction |-> 7 * Cardinality(WeeksOf(mk))]]

\* lines 166-180: every week gives each of its months the contributions of
\* its days in that month and days / 7.0 of a week; week_fraction is kept
\* in sevenths
MonthlyStats(weekly) ==
    LET months == UNION { DOMAIN weekly[w] : w \in DOMAIN weekly }
        WeeksOf(mk) == { w \in DOMAIN weekly : mk \in DOMAIN weekly[w] }
    IN  [mk \in months |->
            [total |-> SumOver(WeeksOf(mk),
                               [w \in WeeksOf(mk) |-> weekly[w][mk].contributions]),
             week_fraction |-> SumOver(WeeksOf(mk),
                               [w \in WeeksOf(mk) |-> weekly[w][mk].count])]]

\* sorted(monthly_stats.items()): "YYYY-MM" keys in ascending order
RECURSIVE SortedMonths(_)
SortedMonths(S) ==
    IF S = {} THEN << >>
    ELSE LET least == CHOOSE k \in S : \A j \in S :
                          k[1] < j[1] \/ (k[1] = j[1] /\ k[2] <= j[2])
         IN  << least >> \o SortedMonths(S \ { least })

\* a / b: None stands for ZeroDivisionError
Quotient(a, b) == IF b = 0 THEN None ELSE Some(<< a, b >>)

\* line 192 with the test total_workdays != 0
AvgPerWorkdayNonZero(total, total_workdays) ==
    IF total_workdays # 0 THEN Quotient(total * 7, total_workdays) ELSE Some(<< 0, 1 >>)

\* line 192: total / total_workdays if total_workdays > 0 else 0, with
\* total_workdays in sevenths
AvgPerWorkday(total, total_workdays) ==
    IF total_workdays > 0 THEN Quotient(total * 7, total_workdays) ELSE Some(<< 0, 1 >>)

\* lines 188-204: total_workdays is the local variable of line 191, in
\* sevenths; avg is None when the division raised
MonthlyData(stats, workdays_per_week) ==
    LET sorted_months == SortedMonths(DOMAIN stats)
    IN  [i \in 1..Len(sorted_months) |->
            LET month_key      == sorted_months[i]
                total_workdays == stats[month_key].week_fraction * workdays_per_week
            IN  [month          |-> month_key,
                 label          |-> << month_key[2], month_key[1] >>,
                 total_workdays |-> total_workdays,
                 avg            |-> AvgPerWorkday(stats[month_key].total, total_workdays),
                 total          |-> stats[month_key].total,
                 week_fraction  |-> stats[month_key].week_fraction]]

\* a float as a fraction << numerator, denominator >> in lowest terms
RECURSIVE Gcd(_, _)
Gcd(a, b) == IF b = 0 THEN a ELSE Gcd(b, a % b)

Abs(a) == IF a < 0 THEN 0 - a ELSE a

Reduce(q) ==
    LET g == Gcd(Abs(q[1]), Abs(q[2]))
        sign == IF q[2] < 0 THEN 0 - 1 ELSE 1
    IN  IF g = 0 THEN q ELSE << sign * (q[1] \div g), sign * (q[2] \div g) >>

\* sum(values) of floats
RECURSIVE FloatSum(_)
FloatSum(values) ==
    IF values = << >> THEN << 0, 1 >>
    ELSE LET a == Head(values)
             b == FloatSum(Tail(values))
         IN  Reduce(<< a[1] * b[2] + b[1] * a[2], a[2] * b[2] >>)

\* sum(values) / n
MeanOf(values, n) ==
    LET total == FloatSum(values) IN Reduce(<< total[1], total[2] * n >>)

\* values[a:b] of Python for 0 <= a <= b <= len(values)
Slice(values, a, b) == SubSeq(values, a + 1, b)

\* line 267: 6-month moving average
window_size == 6

\* lines 268-276 with the window values[i - window_size + 2 : i + 1]
MovingAverageShortWindow(values) ==
    IF Len(values) >= window_size
    THEN Some([k \in 1..Len(values) |->
                 LET i == k - 1
                 IN  IF i < window_size - 1
                     THEN MeanOf(Slice(values, 0, i + 1), i + 1)
                     ELSE MeanOf(Slice(values, i - window_size + 2, i + 1), window_size)])
    ELSE None

\* lines 268-276 (and lines 335-342, 366-373, 396-403 of
\* monthly_code_metrics_analysis.py): the trend line of a series, None when
\* moving_avg is not computed
MovingAverage(values) ==
    IF Len(values) >= window_size
    THEN Some([k \in 1..Len(values) |->
                 LET i == k - 1
                 IN  IF i < window_size - 1
                     THEN MeanOf(Slice(values, 0, i + 1), i + 1)
                     ELSE MeanOf(Slice(values, i - window_size + 1, i + 1), window_size)])
    ELSE None

\* m["avg"] > 0
IsActive(m) == m.avg[1][1] * m.avg[1][2] > 0

\* line 253
ActiveMonths(data) == SelectSeq(data, IsActive)

\* lines 40-46
MP_Token ==
    /\ script = "monthly_productivity_analysis" /\ pc = "token"
    /\ TokenStep("user")
    /\ UNCHANGED << inputs, graphVars, wsVars, ysVars, mpVars, requests, files >>

\* lines 58-100
MP_User ==
    /\ script = "monthly_productivity_analysis" /\ pc = "user"
    /\ requests' = Append(requests, Request("createdAt", TOKEN, None, None, None))
    /\ \E outcome \in {"ok", "errors", "raise"} :
         IF outcome = "raise"
         THEN Traceback /\ UNCHANGED << years_to_process, year_i >>
         ELSE IF outcome = "errors"
         THEN Exit(1, "API errors:") /\ UNCHANGED << years_to_process, year_i >>
         ELSE LET years == YearRange(server.created_at.y, current_year)
              IN  /\ Echo("Analyzing monthly productivity")
                  /\ years_to_process' = years
                  /\ year_i' = 1
                  /\ pc' = IF years = << >> THEN "aggregate" ELSE "loop"
                  /\ UNCHANGED exit_status
    /\ UNCHANGED << inputs, graphVars, wsVars, mpVars, TOKEN, displayed, files >>

\* lines 102-144: one iteration of the loop over the years
MP_FetchYear ==
    /\ script = "monthly_productivity_analysis" /\ pc = "loop"
    /\ year_i <= Len(years_to_process)
    /\ LET year   == years_to_process[year_i]
           window == YearWindow(year, server.created_at, server.created_at.y,
                                current_year, now)
           after  == IF year_i = Len(years_to_process) THEN "aggregate" ELSE "loop"
       IN  /\ requests' = Append(requests,
                                 Request("contributionsCollection", TOKEN, None,
                                         Some(window.from), Some(window.to)))
           /\ \E outcome \in {"ok", "errors", "raise"} :
                IF outcome = "raise"
                THEN Traceback /\ UNCHANGED << all_contributions, year_i >>
                ELSE IF outcome = "errors"
                THEN /\ Echo("Error: errors")
                     /\ pc' = after
                     /\ year_i' = year_i + 1
                     /\ UNCHANGED << all_contributions, exit_status >>
                ELSE /\ all_contributions' = all_contributions \o
                            CalendarDays(server.calendar,
                                         Ymd2Ord(window.from.y, window.from.m, window.from.d),
                                         Ymd2Ord(window.to.y, window.to.m, window.to.d))
                     /\ Echo("contributions")
                     /\ pc' = after
                     /\ year_i' = year_i + 1
                     /\ UNCHANGED exit_status
    /\ UNCHANGED << inputs, graphVars, wsVars, TOKEN, years_to_process, displayed,
                    weekly_stats, monthly_stats, monthly_data, files >>

\* lines 146-204
MP_Aggregate ==
    /\ script = "monthly_productivity_analysis" /\ pc = "aggregate"
    /\ LET weekly  == GroupByWeek(all_contributions, << >>)
           monthly == MonthlyStats(weekly)
           data    == MonthlyData(monthly, args.workdays_per_week)
       IN  /\ weekly_stats' = weekly
           /\ monthly_stats' = monthly
           /\ IF \E i \in 1..Len(data) : data[i].avg = None
              THEN /\ Exit(1, "ZeroDivisionError")
                   /\ UNCHANGED monthly_data
              ELSE /\ monthly_data' = data
                   /\ Echo("Total days tracked")
                   /\ pc' = "report"
                   /\ UNCHANGED exit_status
    /\ UNCHANGED << inputs, graphVars, wsVars, ysVars, TOKEN, requests, all_contributions, files >>

\* lines 206-351: the report and monthly_productivity_data.json
MP_Report ==
    /\ script = "monthly_productivity_analysis" /\ pc = "report"
    /\ Echo("SUMMARY STATISTICS")
    /\ files' = [files EXCEPT !["monthly_productivity_data.json"] =
                    Some([format |-> "monthly_productivity_data",
                          workdays_per_week |-> args.workdays_per_week,
                          monthly_data |-> monthly_data])]
    /\ active_months' = ActiveMonths(monthly_data)
    /\ moving_avg' =
          IF ActiveMonths(monthly_data) = << >> THEN moving_avg
          ELSE [averages |->
                  MovingAverage([i \in 1..Len(ActiveMonths(monthly_data)) |->
                                    ActiveMonths(monthly_data)[i].avg[1]])]
    /\ pc' = "done"
    /\ exit_status' = Some(0)
    /\ UNCHANGED << inputs, wsVars, ysVars, mpVars, TOKEN, requests >>

NextMP ==
    \/ MP_Token
    \/ MP_User
    \/ MP_FetchYear
    \/ MP_Aggregate
    \/ MP_Report

\* number of days the account exists: from Sunday 2024-12-29, the last day
\* of ISO week 2024-W52, into ISO week 2025-W01, which lies in two months
\* and two years
AccountDays == 5

\* largest contributionCount of a day
MaxCount == 2

WorkdaysPerWeek == { 0 - 2, 0 - 1, 0, 1, 5, 7 }

FirstDay == Ymd2Ord(2024, 12, 29)

InitMP ==
    /\ script = "monthly_productivity_analysis"
    /\ pc = "token"
    /\ \E w \in WorkdaysPerWeek :
         args = [token |-> Some("ghp_arg"), detailed |-> FALSE, workdays_per_week |-> w]
    /\ env = [GITHUB_TOKEN |-> None]
    /\ \E cal \in [FirstDay..(FirstDay + AccountDays - 1) -> 0..MaxCount] :
         server = [created_at |-> Stamp(2024, 12, 29, 43200), calendar |-> cal]
    /\ now = Dt(FirstDay + AccountDays - 1, 43200)
    /\ current_year = YearOfOrd(now.ord)
    /\ InitCommon

SpecMP == InitMP /\ [][NextMP]_vars

(***************************************************************************)
(* Properties of monthly_productivity_analysis.py                          *)
(***************************************************************************)
MP == script = "monthly_productivity_analysis"

\* the sum of the week fractions of a month, in sevenths
WeekFractionSum(month_key) ==
    LET weeks == { w \in DOMAIN weekly_stats : month_key \in DOMAIN weekly_stats[w] }
    IN  SumOver(weeks, [w \in weeks |-> weekly_stats[w][month_key].count])

\* C10: for every month total_workdays is the sum of the month's week
\* fractions times workdays_per_week; the average per workday is the
\* month's total divided by total_workdays when total_workdays > 0 and
\* exactly 0 otherwise; no division by zero occurs.
C10_AveragePerWorkday ==
    MP =>
        /\ ~ Printed("ZeroDivisionError")
        /\ pc \in { "report", "done" } =>
              /\ Len(monthly_data) = Cardinality(DOMAIN monthly_stats)
              /\ \A i \in 1..Len(monthly_data) :
                   LET e   == monthly_data[i]
                       tw  == WeekFractionSum(e.month) * args.workdays_per_week
                       avg == e.avg[1]
                   IN  /\ e.total_workdays = tw
                       /\ avg[2] # 0
                       /\ tw > 0 => avg[1] * tw = e.total * 7 * avg[2]
                       /\ tw <= 0 => avg[1] = 0

\* C10 witness: a month with contributions and a negative number of
\* workdays a week has the average 0
C10_WitnessNegativeWorkdays ==
    /\ MP /\ pc = "report" /\ args.workdays_per_week < 0
    /\ \E i \in 1..Len(monthly_data) :
          monthly_data[i].total > 0 /\ monthly_data[i].avg = Some(<< 0, 1 >>)

\* the tracked days of a month: positions in all_contributions
TrackedDaysOf(month_key) ==
    { i \in 1..Len(all_contributions) :
        << all_contributions[i].date.y, all_contributions[i].date.m >> = month_key }

TrackedMonths ==
    { << all_contributions[i].date.y, all_contributions[i].date.m >> :
        i \in 1..Len(all_contributions) }

ContributionCounts == [i \in 1..Len(all_contributions) |-> all_contributions[i].count]

IsActiveCode(m) == m.avg_total[1] * m.avg_total[2] > 0

Column(months, field) == [i \in 1..Len(months) |-> months[i][field]]

\* monthly_code_metrics_analysis.py lines 275-410: the active months and
\* the graphs of additions, deletions and total changes
MC_Graphs ==
    /\ script = "monthly_code_metrics_analysis" /\ pc = "graphs"
    /\ active_months' = SelectSeq(monthly_data, IsActiveCode)
    /\ moving_avg' =
          IF SelectSeq(monthly_data, IsActiveCode) = << >> THEN moving_avg
          ELSE LET active == SelectSeq(monthly_data, IsActiveCode)
               IN  [additions |-> MovingAverage(Column(active, "avg_additions")),
                    deletions |-> MovingAverage(Column(active, "avg_deletions")),
                    totals    |-> MovingAverage(Column(active, "avg_total"))]
    /\ Echo("TOTAL CODE CHANGES TREND")
    /\ pc' = "graphed"
    /\ UNCHANGED << inputs, wsVars, ysVars, mpVars, TOKEN, requests,
                    exit_status, files >>

NextTrend ==
    \/ MP_Report
    \/ MC_Graphs

\* largest number of months in monthly_data
MaxMonths == 7

\* largest average of a month
MaxAvg == 2

\* additions and deletions per workday of a month
CodeMonths == { << 0, 0 >>, << 1, 0 >>, << 2, 1 >> }

\* monthly_productivity_analysis.py at line 222, with 7 workdays a week and
\* whole months of 2024: month i has avgs[i] contributions a day
ProductivityData(avgs) ==
    MonthlyData([mk \in { << 2024, i >> : i \in 1..Len(avgs) } |->
                    [total         |-> avgs[mk[2]] * DaysInMonth(2024, mk[2]),
                     week_fraction |-> DaysInMonth(2024, mk[2])]], 7)

\* monthly_code_metrics_analysis.py at line 275
CodeData(months) ==
    [i \in 1..Len(months) |->
        [month         |-> << 2024, i >>,
         avg_additions |-> << months[i][1], 1 >>,
         avg_deletions |-> << months[i][2], 1 >>,
         avg_total     |-> << months[i][1] + months[i][2], 1 >>]]

InitTrend ==
    /\ env = [GITHUB_TOKEN |-> None]
    /\ now = Dt(Ymd2Ord(2025, 1, 6), 43200)
    /\ current_year = YearOfOrd(now.ord)
    /\ server = [created_at |-> Stamp(2024, 1, 1, 0), calendar |-> << >>]
    /\ args = [token |-> Some("ghp_arg"), detailed |-> FALSE, workdays_per_week |-> 7]
    /\ InitRun
    /\ files = [p \in Paths |-> None]
    /\ \E n \in 0..MaxMonths :
         \/ /\ script = "monthly_productivity_analysis"
            /\ pc = "report"
            /\ \E avgs \in [1..n -> 0..MaxAvg] : monthly_data = ProductivityData(avgs)
         \/ /\ script = "monthly_code_metrics_analysis"
            /\ pc = "graphs"
            /\ \E months \in [1..n -> CodeMonths] : monthly_data = CodeData(months)

SpecTrend == InitTrend /\ [][NextTrend]_vars

(***************************************************************************)
(* Properties of the trend lines                                           *)
(***************************************************************************)
\* the sum of series[lo], ..., series[hi] (indices from 0) as a fraction
RECURSIVE IndexSum(_, _, _)
IndexSum(series, lo, hi) ==
    IF lo > hi THEN << 0, 1 >>
    ELSE LET x    == series[hi + 1]
             rest == IndexSum(series, lo, hi - 1)
         IN  Reduce(<< x[1] * rest[2] + rest[1] * x[2], x[2] * rest[2] >>)

\* trend is the 6-month trend line of series
IsTrendOf(trend, series) ==
    /\ trend # None <=> Len(series) >= 6
    /\ trend # None =>
          /\ Len(trend[1]) = Len(series)
          /\ \A i \in 0..(Len(series) - 1) :
                LET lo  == IF i - 5 > 0 THEN i - 5 ELSE 0
                    sum == IndexSum(series, lo, i)
                    v   == trend[1][i + 1]
                IN  /\ v[2] # 0
                    /\ v[1] * sum[2] * (i - lo + 1) = sum[1] * v[2]

Graphed == pc \in { "done", "graphed" }

\* C14: the 6-month trend line of each graph is computed only when there
\* are at least 6 active months, has one value per active month, and its
\* value i is the mean of the series values at indices max(0, i - 5) .. i.
C14_TrendLine ==
    Graphed =>
        IF active_months = << >> THEN moving_avg = << >>
        ELSE IF script = "monthly_productivity_analysis"
        THEN IsTrendOf(moving_avg.averages,
                       [i \in 1..Len(active_months) |-> active_months[i].avg[1]])
        ELSE /\ IsTrendOf(moving_avg.additions, Column(active_months, "avg_additions"))
             /\ IsTrendOf(moving_avg.deletions, Column(active_months, "avg_deletions"))
             /\ IsTrendOf(moving_avg.totals, Column(active_months, "avg_total"))

\* C14 witness: seven active months whose seventh trend value leaves the
\* first month out
C14_WitnessSeventhMonth ==
    /\ Graphed /\ script = "monthly_productivity_analysis"
    /\ Len(active_months) = 7
    /\ moving_avg.averages # None
    /\ active_months[1].avg[1] # active_months[7].avg[1]
    /\ moving_avg.averages[1][7] # moving_avg.averages[1][6]

(***************************************************************************)
(* work_summary.py with every --export and every earlier content of the    *)
(* export file                                                             *)
(***************************************************************************)
\* what a file held before the run
OldContent == Some([format |-> "old", statistics |-> None, headings |-> << >>,
                    pull_requests |-> << >>])

ExportArgs == { None, Some(""), Some("summary.out") }

\* the account has pull requests in the period or has none at all
ExportServers == { ThreeInRange, MkServer(<< >>, 2) }

InitExport ==
    /\ script = "work_summary"
    /\ pc = "token"
    /\ \E f \in { "text", "markdown", "json" }, x \in ExportArgs, st \in BOOLEAN :
         args = WSArgs(Some("ghp_arg"), "custom", Jan5, Jan6, f, "repo", x, st)
    /\ \E old \in { None, OldContent } :
         env = [GITHUB_TOKEN |-> None,
                disk |-> [p \in Paths |-> IF p = "summary.out" THEN old ELSE None]]
    /\ now = Noon
    /\ \E srv \in ExportServers : server = srv
    /\ current_year = YearOfOrd(now.ord)
    /\ InitRun
    /\ files = env.disk
    /\ monthly_data = << >>

SpecExport == InitExport /\ [][NextWS]_vars

\* the content of the file at a path, None when there is no such file
FileAt(path) == IF path \in DOMAIN files THEN files[path] ELSE None

OutputPrinted == \E i \in 1..Len(stdout) : stdout[i] = [line |-> "output", text |-> output]

C13_WitnessNoWorkKeepsFile ==
    /\ WS /\ Printed("No work found for this period.")
    /\ args.export = Some("summary.out")
    /\ env.disk["summary.out"] = OldContent
    /\ files["summary.out"] = OldContent

(***************************************************************************)
(* lifetime_contribution_analysis.py                                       *)
(***************************************************************************)
\* line 6: os.environ["GITHUB_TOKEN"] raises KeyError when the variable is
\* not set; any value, also the empty string, is taken
LT_Token ==
    /\ script = "lifetime_contribution_analysis" /\ pc = "token"
    /\ IF env.GITHUB_TOKEN = None
       THEN Traceback /\ UNCHANGED TOKEN
       ELSE /\ TOKEN' = env.GITHUB_TOKEN
            /\ pc' = "user"
            /\ UNCHANGED << stdout, exit_status >>
    /\ UNCHANGED << inputs, graphVars, wsVars, ysVars, mpVars, requests, files >>

\* lines 18, 37-39 with the report's heading of lines 110-112 printed before
\* the loop over the years
AccountLinesThenHeading ==
    << Line("Fetching account information..."),
       Line("Analyzing years of contributions"),
       Line("LIFETIME CONTRIBUTION ANALYSIS") >>

\* lines 18, 37-39: what is printed around the account request
AccountLines ==
    << Line("Fetching account information..."),
       Line("Analyzing years of contributions") >>

\* lines 18-39
LT_User ==
    /\ script = "lifetime_contribution_analysis" /\ pc = "user"
    /\ requests' = Append(requests, Request("createdAt", TOKEN, None, None, None))
    /\ \E outcome \in {"ok", "errors", "raise"} :
         IF outcome = "raise"
         THEN /\ stdout' = stdout \o << Line("Fetching account information..."),
                                        Line("Traceback") >>
              /\ exit_status' = Some(1)
              /\ pc' = "exit"
              /\ UNCHANGED << years_to_process, year_i >>
         ELSE IF outcome = "errors"
         THEN /\ stdout' = stdout \o << Line("Fetching account information..."),
                                        Line("API errors:") >>
              /\ exit_status' = Some(1)
              /\ pc' = "exit"
              /\ UNCHANGED << years_to_process, year_i >>
         ELSE LET years == YearRange(server.created_at.y, current_year)
              IN  /\ stdout' = stdout \o AccountLines
                  /\ years_to_process' = years
                  /\ year_i' = 1
                  /\ pc' = IF years = << >> THEN "report" ELSE "loop"
                  /\ UNCHANGED exit_status
    /\ UNCHANGED << inputs, graphVars, wsVars, mpVars, TOKEN, displayed, files >>

\* lines 62-108 with a year that answered with "errors" requested again
NextIterationRetry(i, outcome) == IF outcome = "errors" THEN i ELSE i + 1

\* lines 62, 93-95: the for loop goes on to the next year, also after
\* "continue"
NextIteration(i, outcome) == i + 1

\* lines 62-108: one iteration of the loop over the years
LT_FetchYear ==
    /\ script = "lifetime_contribution_analysis" /\ pc = "loop"
    /\ year_i <= Len(years_to_process)
    /\ LET year   == years_to_process[year_i]
           window == YearWindow(year, server.created_at, server.created_at.y,
                                current_year, now)
       IN  /\ requests' = Append(requests,
                                 Request("contributionsCollection", TOKEN, None,
                                         Some(window.from), Some(window.to)))
           /\ \E outcome \in {"ok", "errors", "raise"} :
                IF outcome = "raise"
                THEN /\ stdout' = stdout \o << Line("Fetching contributions..."),
                                               Line("Traceback") >>
                     /\ exit_status' = Some(1)
                     /\ pc' = "exit"
                     /\ UNCHANGED << displayed, year_i >>
                ELSE /\ stdout' = stdout \o
                           << Line("Fetching contributions..."),
                              Line(IF outcome = "errors" THEN "Error: errors"
                                   ELSE "contributions") >>
                     /\ displayed' = IF outcome = "errors" THEN displayed
                                     ELSE Append(displayed, year)
                     /\ year_i' = NextIteration(year_i, outcome)
                     /\ pc' = IF NextIteration(year_i, outcome) > Len(years_to_process)
                              THEN "report" ELSE "loop"
                     /\ UNCHANGED exit_status
    /\ UNCHANGED << inputs, graphVars, wsVars, mpVars, TOKEN, years_to_process, files >>

\* lines 110-247: the report of the years in yearly_data
LT_Report ==
    /\ script = "lifetime_contribution_analysis" /\ pc = "report"
    /\ Echo("LIFETIME CONTRIBUTION ANALYSIS")
    /\ pc' = "done"
    /\ exit_status' = Some(0)
    /\ UNCHANGED << inputs, graphVars, wsVars, ysVars, mpVars, TOKEN, requests, files >>

NextLT ==
    \/ LT_Token
    \/ LT_User
    \/ LT_FetchYear
    \/ LT_Report

\* the account was created up to MaxYears years ago, or in the year after
\* the current one of the local clock
InitLT ==
    /\ script = "lifetime_contribution_analysis"
    /\ pc = "token"
    /\ args = << >>
    /\ \E e \in EnvTokens : env = [GITHUB_TOKEN |-> e]
    /\ \E cy \in (ThisYear - MaxYears)..(ThisYear + 1) :
         server = [created_at |-> Stamp(cy, 3, 1, 43200), calendar |-> << >>]
    /\ now = Dt(Ymd2Ord(ThisYear, 6, 15), 43200)
    /\ current_year = ThisYear
    /\ InitCommon

(***************************************************************************)
(* The six scripts                                                         *)
(***************************************************************************)
NextAll ==
    \/ NextWS
    \/ NextYS
    \/ NextFC
    \/ NextMC
    \/ NextMP
    \/ NextLT

\* work_summary.py with every pair of --start and --end values
InitDates ==
    /\ script = "work_summary"
    /\ pc = "token"
    /\ \E sc \in WS_CustomScenarios :
         /\ args = sc.args
         /\ env = sc.env
         /\ now = sc.now
         /\ server = sc.server
    /\ current_year = YearOfOrd(now.ord)
    /\ InitCommon

\* monthly_productivity_analysis.py with one contribution on every day
InitProductivity ==
    /\ script = "monthly_productivity_analysis"
    /\ pc = "token"
    /\ \E t \in ArgTokens, w \in WorkdaysPerWeek :
         args = [token |-> t, detailed |-> FALSE, workdays_per_week |-> w]
    /\ \E e \in EnvTokens : env = [GITHUB_TOKEN |-> e]
    /\ server = [created_at |-> Stamp(2024, 12, 29, 43200),
                 calendar   |-> [d \in FirstDay..(FirstDay + AccountDays - 1) |-> 1]]
    /\ now = Dt(FirstDay + AccountDays - 1, 43200)
    /\ current_year = YearOfOrd(now.ord)
    /\ InitCommon

InitAll ==
    \/ InitTok
    \/ InitYS
    \/ InitDates
    \/ InitProductivity
    \/ InitLT

SpecAll == InitAll /\ [][NextAll]_vars

(***************************************************************************)
(* Properties of all six scripts                                           *)
(***************************************************************************)
\* what a request asks for: the account lookup, a year's window, a page
\* cursor
LogicalRequest(r) == << r.kind, r.after, r.from, r.to >>

\* C12: no script retries: in every run each logical request (the account
\* lookup, a given year, a given page cursor) is sent at most once, also
\* after a request failed with an exception or a response with "errors".
C12_NoRetry ==
    \A i, j \in 1..Len(requests) :
        i < j => LogicalRequest(requests[i]) # LogicalRequest(requests[j])

\* C12 witness: a year answered with "errors" and the loop went on to
\* request the next year
C12_WitnessNextYearAfterErrors ==
    /\ script = "lifetime_contribution_analysis"
    /\ Len(stdout) >= 6
    /\ stdout[4] = Line("Error: errors")
    /\ Len(requests) >= 3
    /\ requests[3].from # requests[2].from

\* the first line of each script's report
ReportLines ==
    { "CONTRIBUTION SUMMARY", "output", "SUMMARY STATISTICS", "CODE METRICS",
      "LIFETIME CONTRIBUTION ANALYSIS" }

ReportBegun == \E i \in 1..Len(stdout) : stdout[i].line \in ReportLines

\* the messages of a run refused for its arguments or its token
ValidationErrors ==
    { "Error: GitHub token required",
      "Error: Cannot specify both --year and --all-years",
      "Error: --custom requires both --start and --end dates",
      "Error: Invalid date format. Use YYYY-MM-DD." }

\* the run ended at argument or token validation; KeyError is the only
\* traceback that is the first line of a run
RefusedAtValidation ==
    /\ pc = "exit"
    /\ \/ \E e \in ValidationErrors : Printed(e)
       \/ script = "lifetime_contribution_analysis" /\ stdout = << Line("Traceback") >>

Finished == pc \in { "done", "exit" }

\* in every run no request is issued after the script has begun printing
\* its report, and a run that passes argument and token validation issues at
\* least one request
C11_ReportAfterAllRequests ==
    /\ [][requests' # requests => ~ ReportBegun]_vars
    /\ [](Finished /\ ~ RefusedAtValidation => requests # << >>)

\* C11: a request is issued after a report has been printed only by
\* yearly_contribution_summary with --all-years, which prints each year's
\* summary before it requests the next year; every other request precedes
\* the report, and a run that passes argument and token validation issues at
\* least one request.
C11_ReportAfterRequestsButPerYear ==
    /\ [][(requests' # requests /\ ReportBegun) =>
            /\ YS /\ args.all_years /\ pc = "loop"
            /\ displayed # << >>
            /\ years_to_process[year_i] > displayed[Len(displayed)]
            /\ requests' = Append(requests,
                                  Request("contributionsCollection", TOKEN, None,
                                          YearVariables(years_to_process[year_i]).from,
                                          YearVariables(years_to_process[year_i]).to))]_vars
    /\ [](Finished /\ ~ RefusedAtValidation => requests # << >>)

\* C11 witness: with --all-years the summaries of two years are printed, the
\* second requested after the first was printed
C11_WitnessSecondYearAfterFirstSummary ==
    /\ YS /\ args.all_years
    /\ Len(displayed) >= 2
    /\ Len(requests) >= 3

\* C11 witness: a run of lifetime_contribution_analysis that passed
\* validation and ended with its report after all its requests
C11_WitnessLifetimeReport ==
    /\ script = "lifetime_contribution_analysis" /\ pc = "done"
    /\ Printed("LIFETIME CONTRIBUTION ANALYSIS")
    /\ Len(requests) >= 2

====
